---- MODULE Spec2Model ----
(***************************************************************************)
(* Model of src/main.c: a button interrupt (GPIO_EVEN_IRQHandler) wakes    *)
(* button_loop through a thread flag; button_loop suspends or resumes the  *)
(* two buzzer threads depending on buzzer_task_started.                    *)
(*                                                                         *)
(* Threads run under a preemptive scheduler with equal priorities, so any  *)
(* ready thread may take the next step.  The interrupt handler preempts    *)
(* every thread: while it runs no thread steps, but the button may still   *)
(* produce edges.  Time is abstracted: an osDelay may return at any step.  *)
(***************************************************************************)
EXTENDS Integers, Naturals, Sequences, FiniteSets, TLC

(* ---------------------------------------------------------------- bounds *)
MaxEdges == 2
MaxSpurious == 1

(* ------------------------------------------------------------- constants *)
ESWGPIO_EXTI_IF == 16
buttonExtIntThreadFlag == 1
F == 0
T == 1
NULL == 0

Workers == {1, 2}

VARIABLES
    main_pc,              \* position of main()
    kernelState,          \* "inactive", "ready", "error", "running"
    hp_pc,                \* position of hp_loop
    button_pc,            \* position of button_loop
    worker_pc,            \* worker_pc[1]: buzzer_loop, worker_pc[2]: buzzer_loop_two
    suspended,            \* suspended[w]: the scheduler holds worker w suspended
    button_task_id,       \* thread handles (NULL until osThreadNew stored them)
    buzzer_task_id,
    buzzer_task_two_id,
    buzzer_task_started,  \* the shared flag, F or T
    flags,                \* thread flags of the button thread
    GPIO_IF,              \* GPIO interrupt flag register
    GPIO_IEN,             \* GPIO interrupt enable register
    extIntConfigured,     \* falling-edge detection of EXTI 4 is configured
    nvicEnabled,          \* GPIO_EVEN_IRQn is enabled in the NVIC
    isr_pc,               \* position of GPIO_EVEN_IRQHandler
    pending,              \* local variable of GPIO_EVEN_IRQHandler
    pinA0,                \* buzzer output pin
    \* history variables
    edges,                \* physical button edges so far
    spurious,             \* invocations of the shared vector by another source
    confirmed,            \* handler invocations that found this source's bit
    toggles,              \* toggles completed by button_loop
    bursts,               \* signal-sets that found button_loop waiting, flag clear
    burstSets,            \* signal-sets of the current burst
    burstFrom,            \* group state when the current burst opened
    lateSet,              \* a signal was set after a wait return, before the clear
    isolated,             \* every edge so far came after the previous was processed
    staleEdges            \* edges latched before buttonIntEnable cleared the flag

hw == <<GPIO_IF, GPIO_IEN, extIntConfigured, nvicEnabled>>
handles == <<button_task_id, buzzer_task_id, buzzer_task_two_id>>
hist == <<edges, spurious, confirmed, toggles, bursts, burstSets, burstFrom,
          lateSet, isolated, staleEdges>>
vars == <<main_pc, kernelState, hp_pc, button_pc, worker_pc, suspended,
          button_task_id, buzzer_task_id, buzzer_task_two_id,
          buzzer_task_started, flags, GPIO_IF, GPIO_IEN, extIntConfigured,
          nvicEnabled, isr_pc, pending, pinA0, edges, spurious, confirmed,
          toggles, bursts, burstSets, burstFrom, lateSet, isolated,
          staleEdges>>

(* ------------------------------------------------------ register helpers *)
RECURSIVE BitAnd(_, _)
BitAnd(a, b) ==
    IF a = 0 \/ b = 0 THEN 0
    ELSE (a % 2) * (b % 2) + 2 * BitAnd(a \div 2, b \div 2)

BitOr(a, b) == a + b - BitAnd(a, b)

BitClear(a, b) == a - BitAnd(a, b)

\* em_gpio: GPIO_IntGetEnabled() returns IF & IEN
GPIO_IntGetEnabled == BitAnd(GPIO_IF, GPIO_IEN)

\* em_gpio: GPIO_IntClear(flags) clears the given bits of IF
GPIO_IntClear(reg, bits) == BitClear(reg, bits)

(* ----------------------------------------------------- scheduler helpers *)
\* osThreadFlagsSet(thread, f): sets the bits; an invalid handle is an error
osThreadFlagsSet(id, fl, f) == IF id = NULL THEN fl ELSE BitOr(fl, f)

\* variant: the clear leaves the flags as they are
osThreadFlagsClear_NoClear(fl, f) == fl

\* osThreadFlagsClear(f): clears the bits of the running thread
osThreadFlagsClear(fl, f) == BitClear(fl, f)

\* variant: the wait returns whether or not the flag is set
osThreadFlagsWaitReady_Always(fl, f) == TRUE

\* osThreadFlagsWait(f, osFlagsWaitAny, osWaitForever) may return
osThreadFlagsWaitReady(fl, f) == BitAnd(fl, f) # 0

\* osThreadSuspend(id) / osThreadResume(id); an invalid handle is an error
osThreadSuspend(s, id) == IF id \in Workers THEN [s EXCEPT ![id] = TRUE] ELSE s

osThreadResume(s, id) == IF id \in Workers THEN [s EXCEPT ![id] = FALSE] ELSE s

\* a thread takes a step only under a running kernel and outside the handler
ThreadsRun == kernelState = "running" /\ isr_pc = "idle"

AllSuspended == \A w \in Workers : suspended[w]
NoneSuspended == \A w \in Workers : ~suspended[w]

(* ------------------------------------------------------------------ Init *)
Init ==
    /\ main_pc = "platform_init"
    /\ kernelState = "inactive"
    /\ hp_pc = "none"
    /\ button_pc = "none"
    /\ worker_pc = [w \in Workers |-> "none"]
    /\ suspended = [w \in Workers |-> FALSE]
    /\ button_task_id = NULL
    /\ buzzer_task_id = NULL
    /\ buzzer_task_two_id = NULL
    /\ buzzer_task_started = F
    /\ flags = 0
    /\ GPIO_IF = 0
    /\ GPIO_IEN = 0
    /\ extIntConfigured = FALSE
    /\ nvicEnabled = FALSE
    /\ isr_pc = "idle"
    /\ pending = 0
    /\ pinA0 = 0
    /\ edges = 0
    /\ spurious = 0
    /\ confirmed = 0
    /\ toggles = 0
    /\ bursts = 0
    /\ burstSets = 0
    /\ burstFrom = "none"
    /\ lateSet = FALSE
    /\ isolated = TRUE
    /\ staleEdges = 0

(* ---------------------------------------------------------------- main() *)
MainRest == <<hp_pc, button_pc, worker_pc, suspended, handles,
              buzzer_task_started, flags, hw, isr_pc, pending, pinA0, hist>>

\* PLATFORM_Init, serial and log set-up
MainPlatformInit ==
    /\ main_pc = "platform_init"
    /\ main_pc' = "kernel_init"
    /\ UNCHANGED <<kernelState, MainRest>>

\* osKernelInitialize(): the kernel becomes ready, or refuses
MainKernelInitialize ==
    /\ main_pc = "kernel_init"
    /\ main_pc' = "new_hp"
    /\ kernelState' \in {"ready", "error"}
    /\ UNCHANGED MainRest

\* osThreadNew(hp_loop, ...)
MainNewHp ==
    /\ main_pc = "new_hp"
    /\ main_pc' = "check"
    /\ hp_pc' = IF kernelState = "ready" THEN "clock_enable" ELSE hp_pc
    /\ UNCHANGED <<kernelState, button_pc, worker_pc, suspended, handles,
                   buzzer_task_started, flags, hw, isr_pc, pending, pinA0, hist>>

\* if (osKernelReady == osKernelGetState()) osKernelStart();
MainKernelStart ==
    /\ main_pc = "check"
    /\ kernelState = "ready"
    /\ main_pc' = "started"
    /\ kernelState' = "running"
    /\ UNCHANGED MainRest

\* else err1("!osKernelReady"); for (;;);
MainKernelNotReady ==
    /\ main_pc = "check"
    /\ kernelState # "ready"
    /\ main_pc' = "halt"
    /\ UNCHANGED <<kernelState, MainRest>>

MainStep ==
    \/ MainPlatformInit
    \/ MainKernelInitialize
    \/ MainNewHp
    \/ MainKernelStart
    \/ MainKernelNotReady

(* ------------------------------------------------------------- hp_loop() *)
HpRest == <<main_pc, kernelState, button_pc, suspended, buzzer_task_started,
            flags, isr_pc, pending, pinA0, hist>>

\* variant: the set-up starts although the kernel has not been started
HpClockEnable_BeforeKernel ==
    /\ hp_pc = "clock_enable" /\ isr_pc = "idle"
    /\ hp_pc' = "set_up_pins"
    /\ UNCHANGED <<HpRest, worker_pc, handles, hw>>

\* CMU_ClockEnable(cmuClock_GPIO, true)
HpClockEnable ==
    /\ ThreadsRun /\ hp_pc = "clock_enable"
    /\ hp_pc' = "set_up_pins"
    /\ UNCHANGED <<HpRest, worker_pc, handles, hw>>

\* set_up_pins()
set_up_pins ==
    /\ ThreadsRun /\ hp_pc = "set_up_pins"
    /\ hp_pc' = "new_buzzer"
    /\ UNCHANGED <<HpRest, worker_pc, handles, hw>>

\* set_up_tasks(): buzzer_task_id = osThreadNew(buzzer_loop, ...)
NewBuzzer ==
    /\ ThreadsRun /\ hp_pc = "new_buzzer"
    /\ hp_pc' = "new_buzzer_two"
    /\ buzzer_task_id' = 1
    /\ worker_pc' = [worker_pc EXCEPT ![1] = "delay"]
    /\ UNCHANGED <<HpRest, button_task_id, buzzer_task_two_id, hw>>

\* set_up_tasks(): buzzer_task_two_id = osThreadNew(buzzer_loop_two, ...)
NewBuzzerTwo ==
    /\ ThreadsRun /\ hp_pc = "new_buzzer_two"
    /\ hp_pc' = "new_button"
    /\ buzzer_task_two_id' = 2
    /\ worker_pc' = [worker_pc EXCEPT ![2] = "delay"]
    /\ UNCHANGED <<HpRest, button_task_id, buzzer_task_id, hw>>

\* variant: the button thread is created but its handle is not stored
NewButton_HandleNotStored ==
    /\ ThreadsRun /\ hp_pc = "new_button"
    /\ hp_pc' = "int_disable"
    /\ button_pc' = "clear"
    /\ UNCHANGED <<main_pc, kernelState, suspended, buzzer_task_started, flags,
                   isr_pc, pending, pinA0, hist, worker_pc, handles, hw>>

\* set_up_tasks(): button_task_id = osThreadNew(button_loop, ...)
NewButton ==
    /\ ThreadsRun /\ hp_pc = "new_button"
    /\ hp_pc' = "int_disable"
    /\ button_task_id' = 3
    /\ button_pc' = "clear"
    /\ UNCHANGED <<main_pc, kernelState, suspended, buzzer_task_started, flags,
                   isr_pc, pending, pinA0, hist, worker_pc, buzzer_task_id,
                   buzzer_task_two_id, hw>>

\* initGPIOButton(): GPIO_IntDisable(ESWGPIO_EXTI_IF)
initGPIOButton_IntDisable ==
    /\ ThreadsRun /\ hp_pc = "int_disable"
    /\ hp_pc' = "ext_int_config"
    /\ GPIO_IEN' = BitClear(GPIO_IEN, ESWGPIO_EXTI_IF)
    /\ UNCHANGED <<HpRest, worker_pc, handles, GPIO_IF, extIntConfigured,
                   nvicEnabled>>

\* initGPIOButton(): GPIO_ExtIntConfig(gpioPortF, 4, 4, false, true, false)
\* selects the falling edge, clears the pending flag, leaves the source disabled
initGPIOButton_ExtIntConfig ==
    /\ ThreadsRun /\ hp_pc = "ext_int_config"
    /\ hp_pc' = "int_clear"
    /\ extIntConfigured' = TRUE
    /\ GPIO_IF' = GPIO_IntClear(GPIO_IF, ESWGPIO_EXTI_IF)
    /\ GPIO_IEN' = BitClear(GPIO_IEN, ESWGPIO_EXTI_IF)
    /\ UNCHANGED <<HpRest, worker_pc, handles, nvicEnabled>>

\* variant: buttonIntEnable enables the source without clearing the flag
buttonIntEnable_IntClear_Missing ==
    /\ ThreadsRun /\ hp_pc = "int_clear"
    /\ hp_pc' = "nvic_enable"
    /\ UNCHANGED <<HpRest, worker_pc, handles, hw>>

\* buttonIntEnable(): GPIO_IntClear(ESWGPIO_EXTI_IF)
buttonIntEnable_IntClear ==
    /\ ThreadsRun /\ hp_pc = "int_clear"
    /\ hp_pc' = "nvic_enable"
    /\ GPIO_IF' = GPIO_IntClear(GPIO_IF, ESWGPIO_EXTI_IF)
    /\ UNCHANGED <<HpRest, worker_pc, handles, GPIO_IEN, extIntConfigured,
                   nvicEnabled>>

\* buttonIntEnable(): NVIC_EnableIRQ(GPIO_EVEN_IRQn); NVIC_SetPriority(...)
buttonIntEnable_NVIC ==
    /\ ThreadsRun /\ hp_pc = "nvic_enable"
    /\ hp_pc' = "int_enable"
    /\ nvicEnabled' = TRUE
    /\ UNCHANGED <<HpRest, worker_pc, handles, GPIO_IF, GPIO_IEN,
                   extIntConfigured>>

\* buttonIntEnable(): GPIO_IntEnable(ESWGPIO_EXTI_IF)
buttonIntEnable_IntEnable ==
    /\ ThreadsRun /\ hp_pc = "int_enable"
    /\ hp_pc' = "hb_delay"
    /\ GPIO_IEN' = BitOr(GPIO_IEN, ESWGPIO_EXTI_IF)
    /\ UNCHANGED <<HpRest, worker_pc, handles, GPIO_IF, extIntConfigured,
                   nvicEnabled>>

\* for (;;) { osDelay(...); info1("Heartbeat"); }
HpHeartbeat ==
    /\ ThreadsRun /\ hp_pc \in {"hb_delay", "hb_log"}
    /\ hp_pc' = IF hp_pc = "hb_delay" THEN "hb_log" ELSE "hb_delay"
    /\ UNCHANGED <<HpRest, worker_pc, handles, hw>>

HpStep ==
    \/ HpClockEnable
    \/ set_up_pins
    \/ NewBuzzer
    \/ NewBuzzerTwo
    \/ NewButton
    \/ initGPIOButton_IntDisable
    \/ initGPIOButton_ExtIntConfig
    \/ buttonIntEnable_IntClear
    \/ buttonIntEnable_NVIC
    \/ buttonIntEnable_IntEnable
    \/ HpHeartbeat

(* ------------------------------------- buzzer_loop(), buzzer_loop_two() *)
WorkerRuns(w) == ThreadsRun /\ worker_pc[w] # "none" /\ ~suspended[w]

WorkerRest == <<main_pc, kernelState, hp_pc, button_pc, suspended, handles,
                flags, hw, isr_pc, pending, hist>>

\* osDelay(70) / osDelay(40) returns
WorkerDelay(w) ==
    /\ WorkerRuns(w) /\ worker_pc[w] = "delay"
    /\ worker_pc' = [worker_pc EXCEPT ![w] = "toggle"]
    /\ UNCHANGED <<WorkerRest, buzzer_task_started, pinA0>>

\* GPIO_PinOutToggle(gpioPortA, 0)
WorkerToggle(w) ==
    /\ WorkerRuns(w) /\ worker_pc[w] = "toggle"
    /\ pinA0' = 1 - pinA0
    /\ worker_pc' = [worker_pc EXCEPT ![w] = IF w = 1 THEN "set_started" ELSE "delay"]
    /\ UNCHANGED <<WorkerRest, buzzer_task_started>>

\* buzzer_loop only: buzzer_task_started = T; info1(...)
BuzzerSetStarted ==
    /\ WorkerRuns(1) /\ worker_pc[1] = "set_started"
    /\ buzzer_task_started' = T
    /\ worker_pc' = [worker_pc EXCEPT ![1] = "delay"]
    /\ UNCHANGED <<WorkerRest, pinA0>>

WorkerStep(w) ==
    \/ WorkerDelay(w)
    \/ WorkerToggle(w)
    \/ (w = 1 /\ BuzzerSetStarted)

(* --------------------------------------------------------- button_loop() *)
ButtonRest == <<main_pc, kernelState, hp_pc, worker_pc, handles, hw, isr_pc,
                pending, pinA0, edges, spurious, confirmed, bursts, burstSets,
                burstFrom, isolated, staleEdges>>

\* variant: button_loop goes to its wait without clearing the flag
ButtonFlagsClear_Skipped ==
    /\ ThreadsRun /\ button_pc = "clear"
    /\ button_pc' = "wait"
    /\ UNCHANGED <<ButtonRest, suspended, buzzer_task_started, flags, toggles,
                   lateSet>>

\* osThreadFlagsClear(buttonExtIntThreadFlag)
ButtonFlagsClear ==
    /\ ThreadsRun /\ button_pc = "clear"
    /\ flags' = osThreadFlagsClear(flags, buttonExtIntThreadFlag)
    /\ button_pc' = "wait"
    /\ UNCHANGED <<ButtonRest, suspended, buzzer_task_started, toggles, lateSet>>

\* osThreadFlagsWait(buttonExtIntThreadFlag, osFlagsWaitAny, osWaitForever)
\* returns once the flag is set and clears it; info1(...)
ButtonFlagsWait ==
    /\ ThreadsRun /\ button_pc = "wait"
    /\ osThreadFlagsWaitReady(flags, buttonExtIntThreadFlag)
    /\ flags' = BitClear(flags, buttonExtIntThreadFlag)
    /\ button_pc' = "if_started"
    /\ lateSet' = FALSE
    /\ UNCHANGED <<ButtonRest, suspended, buzzer_task_started, toggles>>

\* variant: the test is inverted
ButtonIfStarted_Inverted ==
    /\ ThreadsRun /\ button_pc = "if_started"
    /\ button_pc' = IF buzzer_task_started = F THEN "suspend_one" ELSE "resume_one"
    /\ UNCHANGED <<ButtonRest, suspended, buzzer_task_started, flags, toggles,
                   lateSet>>

\* if (buzzer_task_started)
ButtonIfStarted ==
    /\ ThreadsRun /\ button_pc = "if_started"
    /\ button_pc' = IF buzzer_task_started # F THEN "suspend_one" ELSE "resume_one"
    /\ UNCHANGED <<ButtonRest, suspended, buzzer_task_started, flags, toggles,
                   lateSet>>

\* osThreadSuspend(buzzer_task_id)
ButtonSuspendOne ==
    /\ ThreadsRun /\ button_pc = "suspend_one"
    /\ suspended' = osThreadSuspend(suspended, buzzer_task_id)
    /\ button_pc' = "suspend_two"
    /\ UNCHANGED <<ButtonRest, buzzer_task_started, flags, toggles, lateSet>>

\* variant: the second suspend names buzzer_task_id again
ButtonSuspendTwo_WrongHandle ==
    /\ ThreadsRun /\ button_pc = "suspend_two"
    /\ suspended' = osThreadSuspend(suspended, buzzer_task_id)
    /\ button_pc' = "set_F"
    /\ UNCHANGED <<ButtonRest, buzzer_task_started, flags, toggles, lateSet>>

\* osThreadSuspend(buzzer_task_two_id)
ButtonSuspendTwo ==
    /\ ThreadsRun /\ button_pc = "suspend_two"
    /\ suspended' = osThreadSuspend(suspended, buzzer_task_two_id)
    /\ button_pc' = "set_F"
    /\ UNCHANGED <<ButtonRest, buzzer_task_started, flags, toggles, lateSet>>

\* variant: the suspend branch leaves buzzer_task_started as it is
ButtonSetF_NotWritten ==
    /\ ThreadsRun /\ button_pc = "set_F"
    /\ toggles' = toggles + 1
    /\ button_pc' = "clear"
    /\ UNCHANGED <<ButtonRest, suspended, buzzer_task_started, flags, lateSet>>

\* buzzer_task_started = F; info1(...)
ButtonSetF ==
    /\ ThreadsRun /\ button_pc = "set_F"
    /\ buzzer_task_started' = F
    /\ toggles' = toggles + 1
    /\ button_pc' = "clear"
    /\ UNCHANGED <<ButtonRest, suspended, flags, lateSet>>

\* osThreadResume(buzzer_task_id)
ButtonResumeOne ==
    /\ ThreadsRun /\ button_pc = "resume_one"
    /\ suspended' = osThreadResume(suspended, buzzer_task_id)
    /\ button_pc' = "resume_two"
    /\ UNCHANGED <<ButtonRest, buzzer_task_started, flags, toggles, lateSet>>

\* variant: the second worker is not resumed
ButtonResumeTwo_Skipped ==
    /\ ThreadsRun /\ button_pc = "resume_two"
    /\ button_pc' = "set_T"
    /\ UNCHANGED <<ButtonRest, suspended, buzzer_task_started, flags, toggles,
                   lateSet>>

\* osThreadResume(buzzer_task_two_id)
ButtonResumeTwo ==
    /\ ThreadsRun /\ button_pc = "resume_two"
    /\ suspended' = osThreadResume(suspended, buzzer_task_two_id)
    /\ button_pc' = "set_T"
    /\ UNCHANGED <<ButtonRest, buzzer_task_started, flags, toggles, lateSet>>

\* buzzer_task_started = T; info1(...)
ButtonSetT ==
    /\ ThreadsRun /\ button_pc = "set_T"
    /\ buzzer_task_started' = T
    /\ toggles' = toggles + 1
    /\ button_pc' = "clear"
    /\ UNCHANGED <<ButtonRest, suspended, flags, lateSet>>

ButtonStep ==
    \/ ButtonFlagsClear
    \/ ButtonFlagsWait
    \/ ButtonIfStarted
    \/ ButtonSuspendOne
    \/ ButtonSuspendTwo
    \/ ButtonSetF
    \/ ButtonResumeOne
    \/ ButtonResumeTwo
    \/ ButtonSetT

(* -------------------------------------------------- the button (hardware) *)
\* button_loop is between a wait return and the clear that follows it
InToggle ==
    \/ button_pc \in {"if_started", "suspend_one", "suspend_two", "set_F",
                      "resume_one", "resume_two", "set_T"}
    \/ (button_pc = "clear" /\ toggles > 0)

\* the source is armed: enabled in the GPIO block and in the NVIC
Armed == BitAnd(GPIO_IEN, ESWGPIO_EXTI_IF) # 0 /\ nvicEnabled

\* nothing of an earlier edge is left to process
Quiescent ==
    /\ Armed
    /\ button_pc = "wait"
    /\ flags = 0
    /\ isr_pc = "idle"
    /\ BitAnd(GPIO_IF, ESWGPIO_EXTI_IF) = 0

\* a falling edge on PF4 latches the interrupt flag of EXTI 4
Edge ==
    /\ extIntConfigured
    /\ edges < MaxEdges
    /\ GPIO_IF' = BitOr(GPIO_IF, ESWGPIO_EXTI_IF)
    /\ edges' = edges + 1
    /\ isolated' = (isolated /\ Quiescent)
    /\ staleEdges' = IF hp_pc = "int_clear" THEN staleEdges + 1 ELSE staleEdges
    /\ UNCHANGED <<main_pc, kernelState, hp_pc, button_pc, worker_pc, suspended,
                   handles, buzzer_task_started, flags, GPIO_IEN,
                   extIntConfigured, nvicEnabled, isr_pc, pending, pinA0,
                   spurious, confirmed, toggles, bursts, burstSets, burstFrom,
                   lateSet>>

(* ------------------------------------------------ GPIO_EVEN_IRQHandler() *)
IsrRest == <<main_pc, kernelState, hp_pc, button_pc, worker_pc, suspended,
             handles, buzzer_task_started, GPIO_IEN, extIntConfigured,
             nvicEnabled, pinA0, edges, toggles, isolated, staleEdges>>

\* the NVIC enters the handler: this source is pending and enabled
IRQEnter ==
    /\ nvicEnabled /\ isr_pc = "idle"
    /\ GPIO_IntGetEnabled # 0
    /\ isr_pc' = "get_enabled"
    /\ UNCHANGED <<IsrRest, flags, GPIO_IF, pending, spurious, confirmed,
                   bursts, burstSets, burstFrom, lateSet>>

\* the NVIC enters the handler for another source of the shared vector
SpuriousIRQ ==
    /\ nvicEnabled /\ isr_pc = "idle"
    /\ GPIO_IntGetEnabled = 0
    /\ spurious < MaxSpurious
    /\ spurious' = spurious + 1
    /\ isr_pc' = "get_enabled"
    /\ UNCHANGED <<IsrRest, flags, GPIO_IF, pending, confirmed, bursts,
                   burstSets, burstFrom, lateSet>>

\* pending = GPIO_IntGetEnabled(); if (pending & ESWGPIO_EXTI_IF) taken
IsrButton ==
    /\ isr_pc = "get_enabled"
    /\ BitAnd(GPIO_IntGetEnabled, ESWGPIO_EXTI_IF) # 0
    /\ pending' = GPIO_IntGetEnabled
    /\ confirmed' = confirmed + 1
    /\ isr_pc' = "int_clear"
    /\ UNCHANGED <<IsrRest, flags, GPIO_IF, spurious, bursts, burstSets,
                   burstFrom, lateSet>>

\* variant: the handler signals button_loop although the bit is not set
IsrNotButton_SetsFlag ==
    /\ isr_pc = "get_enabled"
    /\ BitAnd(GPIO_IntGetEnabled, ESWGPIO_EXTI_IF) = 0
    /\ flags' = osThreadFlagsSet(button_task_id, flags, buttonExtIntThreadFlag)
    /\ pending' = 0
    /\ isr_pc' = "idle"
    /\ UNCHANGED <<IsrRest, GPIO_IF, spurious, confirmed, bursts, burstSets,
                   burstFrom, lateSet>>

\* variant: the handler does not test the mask and treats any invocation
\* as the button's
IsrNotButton_NoMaskTest ==
    /\ isr_pc = "get_enabled"
    /\ BitAnd(GPIO_IntGetEnabled, ESWGPIO_EXTI_IF) = 0
    /\ pending' = GPIO_IntGetEnabled
    /\ isr_pc' = "int_clear"
    /\ UNCHANGED <<IsrRest, flags, GPIO_IF, spurious, confirmed, bursts,
                   burstSets, burstFrom, lateSet>>

\* pending = GPIO_IntGetEnabled(); else ; return
IsrNotButton ==
    /\ isr_pc = "get_enabled"
    /\ BitAnd(GPIO_IntGetEnabled, ESWGPIO_EXTI_IF) = 0
    /\ pending' = 0
    /\ isr_pc' = "idle"
    /\ UNCHANGED <<IsrRest, flags, GPIO_IF, spurious, confirmed, bursts,
                   burstSets, burstFrom, lateSet>>

\* variant: the handler also writes the shared flag
IsrIntClear_WritesStarted ==
    /\ isr_pc = "int_clear"
    /\ GPIO_IF' = GPIO_IntClear(GPIO_IF, ESWGPIO_EXTI_IF)
    /\ buzzer_task_started' = 1 - buzzer_task_started
    /\ isr_pc' = "flags_set"
    /\ UNCHANGED <<main_pc, kernelState, hp_pc, button_pc, worker_pc, suspended,
                   handles, GPIO_IEN, extIntConfigured, nvicEnabled, pinA0,
                   edges, toggles, isolated, staleEdges, flags, pending,
                   spurious, confirmed, bursts, burstSets, burstFrom, lateSet>>

\* variant: the handler leaves the pending flag set
IsrIntClear_Missing ==
    /\ isr_pc = "int_clear"
    /\ isr_pc' = "flags_set"
    /\ UNCHANGED <<IsrRest, flags, GPIO_IF, pending, spurious, confirmed,
                   bursts, burstSets, burstFrom, lateSet>>

\* GPIO_IntClear(ESWGPIO_EXTI_IF)
IsrIntClear ==
    /\ isr_pc = "int_clear"
    /\ GPIO_IF' = GPIO_IntClear(GPIO_IF, ESWGPIO_EXTI_IF)
    /\ isr_pc' = "flags_set"
    /\ UNCHANGED <<IsrRest, flags, pending, spurious, confirmed, bursts,
                   burstSets, burstFrom, lateSet>>

\* osThreadFlagsSet(button_task_id, buttonExtIntThreadFlag); return
IsrFlagsSet ==
    /\ isr_pc = "flags_set"
    /\ flags' = osThreadFlagsSet(button_task_id, flags, buttonExtIntThreadFlag)
    /\ pending' = 0
    /\ isr_pc' = "idle"
    /\ IF button_pc = "wait" /\ flags = 0
       THEN /\ bursts' = bursts + 1
            /\ burstSets' = 1
            /\ burstFrom' = IF buzzer_task_started = T /\ NoneSuspended
                            THEN "Active" ELSE "other"
            /\ lateSet' = FALSE
       ELSE IF InToggle
       THEN /\ burstSets' = burstSets + 1
            /\ lateSet' = TRUE
            /\ UNCHANGED <<bursts, burstFrom>>
       ELSE IF button_pc = "wait"
       THEN /\ burstSets' = burstSets + 1
            /\ UNCHANGED <<bursts, burstFrom, lateSet>>
       ELSE UNCHANGED <<bursts, burstSets, burstFrom, lateSet>>
    /\ UNCHANGED <<IsrRest, GPIO_IF, spurious, confirmed>>

IsrStep ==
    \/ IsrButton
    \/ IsrNotButton
    \/ IsrIntClear
    \/ IsrFlagsSet

(* ------------------------------------------------------- specifications *)
Next ==
    \/ MainStep
    \/ HpStep
    \/ ButtonStep
    \/ \E w \in Workers : WorkerStep(w)
    \/ Edge
    \/ IRQEnter
    \/ SpuriousIRQ
    \/ IsrStep

Spec == Init /\ [][Next]_vars

\* the scheduler shares the processor among ready threads of equal priority,
\* the NVIC enters a pending enabled handler, and the handler runs to its end
FairSpec ==
    /\ Spec
    /\ WF_vars(MainStep)
    /\ WF_vars(HpStep)
    /\ WF_vars(ButtonStep)
    /\ \A w \in Workers : WF_vars(WorkerStep(w))
    /\ WF_vars(IRQEnter)
    /\ WF_vars(IsrStep)

TypeOK ==
    /\ buzzer_task_started \in {F, T}
    /\ flags \in {0, buttonExtIntThreadFlag}
    /\ GPIO_IF \in {0, ESWGPIO_EXTI_IF}
    /\ GPIO_IEN \in {0, ESWGPIO_EXTI_IF}
    /\ pinA0 \in {0, 1}
    /\ edges \in 0..MaxEdges
    /\ spurious \in 0..MaxSpurious

(* ---------------------------------------------------------------- claims *)
ButtonBit == BitAnd(GPIO_IF, ESWGPIO_EXTI_IF) # 0

\* C1 (toggle parity): after N edges, each one arriving when nothing of the
\* previous one is left to process, and once the last one is processed, the
\* workers all run if N is even and are all suspended if N is odd.
C1_ToggleParity ==
    (isolated /\ Quiescent) =>
        /\ (edges % 2 = 0 => NoneSuspended)
        /\ (edges % 2 = 1 => AllSuspended)

\* C2 (Activity State consistency): while button_loop is clearing or waiting,
\* buzzer_task_started is T exactly when no worker is suspended and F exactly
\* when every worker is suspended.
C2_ActivityStateConsistent ==
    button_pc \in {"clear", "wait"} =>
        /\ (buzzer_task_started = T <=> NoneSuspended)
        /\ (buzzer_task_started = F <=> AllSuspended)

\* C3 (group atomicity): once button_loop has completed a toggle and is back
\* at the top of its loop, either every worker is suspended or none is.
C3_GroupAtomicity ==
    (toggles > 0 /\ button_pc \in {"clear", "wait"}) =>
        (AllSuspended \/ NoneSuspended)

C3_Witness ==
    /\ toggles > 0
    /\ button_pc = "clear"
    /\ AllSuspended
    /\ worker_pc[1] = "set_started"

\* C4 (coalescing): a burst is opened by a signal-set that finds button_loop
\* waiting with the flag clear; every further signal-set before the clear that
\* follows the wake belongs to the same burst.  Each burst causes exactly one
\* toggle, whatever the number of its signal-sets, and a burst of two or more
\* that opened with the group Active leaves every worker suspended.
C4_Coalescing ==
    /\ toggles <= bursts
    /\ bursts <= toggles + 1
    /\ (button_pc = "wait" /\ flags = 0 => toggles = bursts)
    /\ (Quiescent /\ burstFrom = "Active" /\ burstSets >= 2 => AllSuspended)

C4_Witness ==
    /\ Quiescent
    /\ burstFrom = "Active"
    /\ burstSets >= 2
    /\ toggles = 1
    /\ AllSuspended

\* C5 as stated: a signal set after a wait return and before the next clear
\* is still there when button_loop waits again, so that wait returns.
C5_SignalNotLost ==
    (button_pc = "wait" /\ lateSet) =>
        osThreadFlagsWaitReady(flags, buttonExtIntThreadFlag)

\* C5 (amended): a signal set after a wait return and before the next clear
\* is discarded by that clear: when button_loop waits again the flag is clear,
\* and no toggle beyond the one per burst has been made for it.
C5_LateSignalDiscarded ==
    (button_pc = "wait" /\ lateSet) =>
        /\ ~osThreadFlagsWaitReady(flags, buttonExtIntThreadFlag)
        /\ toggles = bursts

C5_Witness ==
    /\ button_pc = "wait"
    /\ lateSet
    /\ isr_pc = "idle"
    /\ confirmed = 2
    /\ toggles = 1

\* C6 (single writer): buzzer_task_started changes only by button_loop's own
\* assignments; the thread flag is set only by the handler's osThreadFlagsSet
\* and cleared only by button_loop's clear or wait.
C6_SingleWriter ==
    [][/\ (buzzer_task_started' # buzzer_task_started =>
              button_pc \in {"set_F", "set_T"} /\ button_pc' = "clear")
       /\ (flags' # flags =>
              IF BitAnd(flags', buttonExtIntThreadFlag) # 0
              THEN isr_pc = "flags_set"
              ELSE button_pc \in {"clear", "wait"} /\ isr_pc = "idle")]_vars

\* C7 (initial state): from the creation of the workers until the first
\* toggle completes, buzzer_task_started is T.
C7_InitiallyActive ==
    (\A w \in Workers : worker_pc[w] # "none") /\ toggles = 0 =>
        buzzer_task_started = T

\* C8 (Scenario B): once a single edge has been handled and button_loop is
\* back in its wait with nothing left to process, every worker is suspended,
\* and while no further edge occurs no suspended group toggles the pin.
C8_ScenarioB ==
    /\ [](edges = 1 /\ confirmed = 1 /\ Quiescent => AllSuspended)
    /\ [][edges = 1 /\ edges' = 1 /\ AllSuspended => pinA0' = pinA0]_vars

\* C9 (Scenario A): as long as no edge has occurred button_loop has not left
\* its wait, has made no toggle and no worker is suspended; and in a run
\* without any edge, once the kernel runs, every worker toggles the pin
\* again and again.
C9_ScenarioA ==
    /\ [](edges = 0 =>
            /\ button_pc \in {"none", "clear", "wait"}
            /\ toggles = 0
            /\ NoneSuspended)
    /\ \/ <>(edges > 0)
       \/ <>(main_pc = "halt")
       \/ \A w \in Workers : []<><<WorkerToggle(w)>>_vars

C9_Witness ==
    /\ edges = 0
    /\ spurious = 1
    /\ isr_pc = "idle"
    /\ button_pc = "wait"
    /\ pinA0 = 1
    /\ worker_pc[2] = "delay"
    /\ hp_pc = "hb_log"

\* C10 (no self-fire): every handler invocation that finds the button's bit
\* answers a physical edge of its own: outside the handler's own clear, the
\* pending bit is set only if an edge has occurred that no invocation has
\* answered yet, so the handler is not entered again without a new edge.
C10_NoSelfFire ==
    /\ confirmed <= edges
    /\ (ButtonBit /\ isr_pc # "int_clear" => confirmed < edges)

C10_Witness ==
    /\ confirmed >= 1
    /\ confirmed = edges
    /\ isr_pc = "idle"
    /\ ~ButtonBit

\* the handler takes a step
IsrMoves == isr_pc # "idle" /\ isr_pc' # isr_pc

\* C11 (spurious interrupt ignored): when the handler runs and the button's
\* bit is not in the pending-and-enabled mask, it returns leaving the
\* interrupt flag register, the thread flag and every thread as they were;
\* and as long as no invocation has found the bit, there is no signal, no
\* wake and no toggle.
C11_SpuriousIgnored ==
    /\ [](confirmed = 0 =>
            /\ flags = 0
            /\ toggles = 0
            /\ button_pc \in {"none", "clear", "wait"})
    /\ [][(/\ isr_pc = "get_enabled"
           /\ isr_pc' # isr_pc
           /\ BitAnd(GPIO_IntGetEnabled, ESWGPIO_EXTI_IF) = 0) =>
              /\ isr_pc' = "idle"
              /\ GPIO_IF' = GPIO_IF
              /\ flags' = flags
              /\ UNCHANGED <<button_pc, worker_pc, suspended,
                             buzzer_task_started, toggles, confirmed>>]_vars

\* the handler has run for another source while the button's flag was
\* latched but not yet enabled, and has returned
C11_Witness ==
    /\ spurious = 1
    /\ confirmed = 0
    /\ isr_pc = "idle"
    /\ ButtonBit
    /\ hp_pc = "int_enable"
    /\ button_pc = "wait"
    /\ flags = 0

\* C12 (handler effect is limited): a handler invocation for a confirmed edge
\* makes one pending-clear, then one signal-set, then returns; it is never
\* blocked; and no step taken while the handler runs changes the shared flag,
\* the suspension of a worker or the position of any thread.
C12_HandlerEffect ==
    /\ [](isr_pc # "idle" => ENABLED IsrStep)
    /\ [][IsrMoves =>
            UNCHANGED <<buzzer_task_started, suspended, button_pc, worker_pc,
                        hp_pc, pinA0, toggles, GPIO_IEN, nvicEnabled>>]_vars
    /\ [][(isr_pc = "int_clear" /\ IsrMoves) =>
            /\ isr_pc' = "flags_set"
            /\ GPIO_IF' = BitClear(GPIO_IF, ESWGPIO_EXTI_IF)
            /\ flags' = flags]_vars
    /\ [][(isr_pc = "flags_set" /\ IsrMoves) =>
            /\ isr_pc' = "idle"
            /\ flags' = BitOr(flags, buttonExtIntThreadFlag)
            /\ GPIO_IF' = GPIO_IF]_vars

C12_Witness ==
    /\ confirmed = 2
    /\ isr_pc = "idle"
    /\ flags = buttonExtIntThreadFlag
    /\ ~ButtonBit
    /\ AllSuspended
    /\ buzzer_task_started = F
    /\ button_pc = "clear"

\* wait returns of button_loop, and signal-sets made by the handler, so far
Wakes ==
    toggles + (IF button_pc \in {"if_started", "suspend_one", "suspend_two",
                                 "set_F", "resume_one", "resume_two", "set_T"}
               THEN 1 ELSE 0)

SignalSets == confirmed - (IF isr_pc \in {"int_clear", "flags_set"} THEN 1 ELSE 0)

\* C13 (no wake without a signal): the wait returns of button_loop never
\* outnumber the handler's signal-sets, a set flag stands for a signal-set no
\* wait return has consumed, and the toggles never outnumber the confirmed
\* edges.
C13_NoWakeWithoutSignal ==
    /\ Wakes <= SignalSets
    /\ (flags # 0 => Wakes < SignalSets)
    /\ toggles <= confirmed

C13_Witness ==
    /\ toggles = 1
    /\ confirmed = 1
    /\ button_pc = "wait"
    /\ isr_pc = "idle"

\* buzzer_task_started agrees with the suspension of the whole group
GroupMatchesFlag ==
    \/ (buzzer_task_started = T /\ NoneSuspended)
    \/ (buzzer_task_started = F /\ AllSuspended)

\* C14 (wake liveness): when a signal-set has found button_loop blocked in
\* its wait (the n-th burst is open and n - 1 toggles are done), button_loop
\* eventually is back in its wait with exactly n toggles done, every worker
\* suspended or every worker resumed, and the flag written accordingly.
C14_WakeLiveness ==
    \A n \in 1..MaxEdges :
        (bursts = n /\ toggles = n - 1 /\ button_pc = "wait" /\ flags # 0)
            ~> (toggles = n /\ button_pc = "wait" /\ GroupMatchesFlag)

C14_Witness ==
    /\ bursts = 2
    /\ toggles = 2
    /\ button_pc = "wait"
    /\ buzzer_task_started = T
    /\ NoneSuspended
    /\ isr_pc = "idle"

\* button_loop takes a step
ButtonMoves == button_pc' # button_pc

\* C15 (toggle step order): after the wake the flag is read once and decides
\* the branch; the suspend branch suspends buzzer_task_id, then
\* buzzer_task_two_id, then writes F; the resume branch resumes them in the
\* same order, then writes T; the flag is written by button_loop only as the
\* last step of a branch, after both scheduler calls.
C15_ToggleOrder ==
    /\ [](button_pc = "suspend_two" => suspended[1])
    /\ [](button_pc = "set_F" => AllSuspended)
    /\ [](button_pc = "resume_two" => ~suspended[1])
    /\ [](button_pc = "set_T" => NoneSuspended)
    /\ [][(button_pc = "if_started" /\ ButtonMoves) =>
            /\ button_pc' = IF buzzer_task_started = T
                            THEN "suspend_one" ELSE "resume_one"
            /\ UNCHANGED <<suspended, buzzer_task_started>>]_vars
    /\ [][(button_pc = "suspend_one" /\ ButtonMoves) =>
            /\ button_pc' = "suspend_two"
            /\ suspended' = [suspended EXCEPT ![1] = TRUE]
            /\ UNCHANGED buzzer_task_started]_vars
    /\ [][(button_pc = "suspend_two" /\ ButtonMoves) =>
            /\ button_pc' = "set_F"
            /\ suspended' = [suspended EXCEPT ![2] = TRUE]
            /\ UNCHANGED buzzer_task_started]_vars
    /\ [][(button_pc = "resume_one" /\ ButtonMoves) =>
            /\ button_pc' = "resume_two"
            /\ suspended' = [suspended EXCEPT ![1] = FALSE]
            /\ UNCHANGED buzzer_task_started]_vars
    /\ [][(button_pc = "resume_two" /\ ButtonMoves) =>
            /\ button_pc' = "set_T"
            /\ suspended' = [suspended EXCEPT ![2] = FALSE]
            /\ UNCHANGED buzzer_task_started]_vars
    /\ [][(button_pc = "set_F" /\ ButtonMoves) =>
            /\ button_pc' = "clear"
            /\ buzzer_task_started' = F
            /\ UNCHANGED suspended]_vars
    /\ [][(button_pc = "set_T" /\ ButtonMoves) =>
            /\ button_pc' = "clear"
            /\ buzzer_task_started' = T
            /\ UNCHANGED suspended]_vars

\* both branches have been taken: suspended from T, then resumed from F
C15_Witness ==
    /\ toggles = 1
    /\ button_pc = "set_T"
    /\ buzzer_task_started = F
    /\ NoneSuspended
    /\ worker_pc[1] = "set_started"

\* C16 (arming after task creation): the source is enabled, in the NVIC or
\* in the GPIO block, only once the three threads exist and their handles are
\* stored; whenever the handler is about to set the signal, button_task_id
\* names the existing button thread.
C16_ArmedAfterCreation ==
    /\ (nvicEnabled \/ BitAnd(GPIO_IEN, ESWGPIO_EXTI_IF) # 0) =>
          /\ buzzer_task_id # NULL /\ worker_pc[1] # "none"
          /\ buzzer_task_two_id # NULL /\ worker_pc[2] # "none"
          /\ button_task_id # NULL /\ button_pc # "none"
    /\ isr_pc # "idle" => (button_task_id # NULL /\ button_pc # "none")

C16_Witness ==
    /\ isr_pc = "flags_set"
    /\ button_task_id # NULL
    /\ button_pc = "wait"

\* position of hp_loop in its start-up sequence
HpIndex(pc) ==
    CASE pc = "none" -> 0
      [] pc = "clock_enable" -> 1
      [] pc = "set_up_pins" -> 2
      [] pc = "new_buzzer" -> 3
      [] pc = "new_buzzer_two" -> 4
      [] pc = "new_button" -> 5
      [] pc = "int_disable" -> 6
      [] pc = "ext_int_config" -> 7
      [] pc = "int_clear" -> 8
      [] pc = "nvic_enable" -> 9
      [] pc = "int_enable" -> 10
      [] OTHER -> 11

\* a worker or button_loop has executed at least one step
TaskHasRun ==
    \/ \E w \in Workers : worker_pc[w] \notin {"none", "delay"}
    \/ button_pc \notin {"none", "clear"}
    \/ pinA0 # 0

\* C17 as stated: the scheduler is started only after the source is armed,
\* so a running kernel, and any step of a worker or of button_loop, finds the
\* source armed.
C17_SchedulerStartLast ==
    /\ kernelState = "running" => Armed
    /\ TaskHasRun => Armed

\* C17 (amended): main starts the scheduler first; pin configuration, thread
\* creation and arming are then done, in that order, by the hp_loop thread
\* under the running kernel, so every start-up step past the first finds the
\* kernel running, and the source is armed only when hp_loop has finished
\* its start-up sequence.
C17_StartupUnderRunningKernel ==
    /\ HpIndex(hp_pc) > 1 => kernelState = "running"
    /\ (\E w \in Workers : worker_pc[w] # "none") => HpIndex(hp_pc) > 3
    /\ button_pc # "none" => HpIndex(hp_pc) > 5
    /\ extIntConfigured => HpIndex(hp_pc) > 7
    /\ nvicEnabled => HpIndex(hp_pc) > 9
    /\ Armed => HpIndex(hp_pc) = 11

\* a worker has toggled the pin and button_loop waits while the source is
\* not yet armed
C17_Witness ==
    /\ kernelState = "running"
    /\ ~Armed
    /\ hp_pc = "int_enable"
    /\ worker_pc[1] = "set_started"
    /\ button_pc = "wait"

\* C18 (clear-then-enable arming): the source stays disabled until hp_loop
\* has configured the edge and cleared the flag, the clear leaves the
\* button's bit clear before the enable, and an edge latched before that
\* clear is never answered: no handler invocation finds the bit, no signal
\* is set and no toggle is made before the source is enabled, and the
\* confirmed invocations never outnumber the edges that came after the clear.
C18_ClearThenEnable ==
    /\ [](HpIndex(hp_pc) <= 10 =>
            /\ BitAnd(GPIO_IEN, ESWGPIO_EXTI_IF) = 0
            /\ confirmed = 0
            /\ flags = 0
            /\ toggles = 0)
    /\ [](confirmed <= edges - staleEdges)
    /\ [](toggles <= edges - staleEdges)
    /\ [][(hp_pc = "int_clear" /\ hp_pc' # hp_pc) =>
            /\ BitAnd(GPIO_IF', ESWGPIO_EXTI_IF) = 0
            /\ BitAnd(GPIO_IEN', ESWGPIO_EXTI_IF) = 0]_vars

\* an edge came during the configuration, the source is armed and idle, and
\* nothing has answered the edge
C18_Witness ==
    /\ staleEdges = 1
    /\ edges = 1
    /\ Quiescent
    /\ confirmed = 0
    /\ toggles = 0
    /\ hp_pc = "hb_log"

\* buzzer_task_started has been T at some time: it is T now, or button_loop
\* has written it (its first write is T, or it is F after reading T)
EverStarted == buzzer_task_started = T \/ toggles > 0

\* C19 (convergence of the shared flag): once buzzer_task_started has been T,
\* whenever button_loop is clearing or waiting the flag is T exactly when no
\* worker is suspended and F exactly when every worker is suspended; from
\* then on the flag goes from F to T only inside a resume branch, never
\* while every worker is suspended.
C19_Convergence ==
    /\ []((EverStarted /\ button_pc \in {"clear", "wait"}) =>
            /\ (buzzer_task_started = T <=> NoneSuspended)
            /\ (buzzer_task_started = F <=> AllSuspended))
    /\ [][(EverStarted /\ buzzer_task_started = F /\ buzzer_task_started' = T) =>
            /\ button_pc \in {"resume_two", "set_T"}
            /\ ~AllSuspended]_vars

\* buzzer_loop, resumed in the middle of its iteration, has written T before
\* button_loop did
C19_Witness ==
    /\ toggles = 1
    /\ button_pc = "set_T"
    /\ buzzer_task_started = T
    /\ worker_pc[1] = "delay"
    /\ NoneSuspended

====
